---- MODULE Spec2Model ----
(***************************************************************************)
(* Model of rchttp.Client (src/client.go): one Do call, the backoff loop   *)
(* it delegates to, and the context cancellation that races with both;     *)
(* the clients NewClient copies from DefaultClient and their setters.      *)
(*                                                                         *)
(* A response is its status code, NilResp is Go's nil *http.Response.      *)
(* An error is "nil" (Go's nil error), "transport" (any non-context error  *)
(* the doer returns), "canceled" or "deadline" (the two context errors).   *)
(* A doer returns a response, an error, or (a redirect that net/http gives *)
(* up on) the last redirect response together with an error.               *)
(* A string is a sequence of one-character strings, a duration a number of *)
(* nanoseconds.                                                            *)
(***************************************************************************)
EXTENDS Integers, Sequences, FiniteSets, TLC

\* ---------------------------------------------------------------- bounds
\* largest MaxRetries a client is configured with
MaxM == 3
\* longest correlation chain found on an inbound context
MaxChainLen == 5
\* number of clients NewClient is asked for
MaxClients == 2

\* ------------------------------------------------------------- constants
StatusInternalServerError == 500
StatusConflict == 409
NilResp == 0
\* the status of the response net/http returns with the error of a failed redirect
StatusFound == 302
DefaultIdLen == 20
Millisecond == 1000000
DefaultRetryTime == 20 * Millisecond
\* DefaultClient.MaxRetries
DefaultMaxRetries == 10
\* DefaultClient.HTTPClient.Timeout, 10 * time.Second, in milliseconds
DefaultTimeout == 10000

\* status codes a downstream server answers with
Statuses == {200, 404, 409, 429, 499, 500, 503}
\* values SetMaxRetries(int) is given
MaxRetriesValues == -1 .. MaxM
CtxErrs == {"canceled", "deadline"}
\* req.URL.Path of the requests sent
Paths == {"/exempt", "/other"}
\* the bytes a caller puts in a request body
BodyBytes == <<"h", "i">>
\* the request Get builds: no body
\* (the others http.NewRequest builds follow: with a body read from a
\* strings.Reader or a buffer, its length known and GetBody set; with a body read
\* from any other reader, length unknown, so ContentLength 0 and no GetBody)
GetRequest == [ContentLength |-> 0, HasGetBody |-> FALSE, GetBody |-> <<>>, Body |-> <<>>]
Requests ==
    { GetRequest,
      [ContentLength |-> Len(BodyBytes), HasGetBody |-> TRUE, GetBody |-> BodyBytes, Body |-> BodyBytes],
      [ContentLength |-> 0, HasGetBody |-> FALSE, GetBody |-> <<>>, Body |-> BodyBytes] }
\* characters of a correlation chain: an identifier character and the separator
ChainAlphabet == {"a", ","}
\* values of common.GetRequestId(ctx), "" included
Chains == UNION {[1 .. n -> ChainAlphabet] : n \in 0 .. MaxChainLen}
\* values of Client.RetryTime
RetryTimes == {0, 1, 500000, Millisecond, 2 * Millisecond, 4 * Millisecond,
               5 * Millisecond, DefaultRetryTime}

\* values SetTimeout(time.Duration) is given, in milliseconds
Timeouts == {100, 500, 5000}
\* the address of DefaultClient and of the http.Client it was built with
DefaultAddr == 1

VARIABLES
    MaxRetries,          \* Client.MaxRetries
    ExponentialBackoff,  \* Client.ExponentialBackoff
    ctx,                 \* the caller's context: "none" until cancelled
    pc,                  \* position of the Do call
    attempt,             \* backoff's loop variable
    sends,               \* number of doer invocations
    resp,                \* backoff's named result resp
    err,                 \* backoff's named result err
    retryErr,            \* backoff's parameter retryErr
    retResp,             \* what Do returned: the response
    retErr,              \* what Do returned: the error
    outcomes,            \* what each doer invocation returned, in order
    cancelAt,            \* position of the Do call when the context was cancelled
    RetryTime,           \* Client.RetryTime
    path,                \* req.URL.Path
    req,                 \* the request's ContentLength, GetBody and Body stream (what is left to read)
    wire,                \* the body stream handed to the transport by each doer invocation
    slept,               \* the attempt numbers backoff computed a sleep for, in order
    upstream,            \* common.GetRequestId(ctx)
    header,              \* req.Header[common.RequestHeaderKey]
    sleepPc,             \* position of a getSleepTime call
    sleepArg,            \* getSleepTime's parameter attempt
    sleepTime,           \* getSleepTime's result
    entryMaxRetries,     \* what c.GetMaxRetries() returned at backoff's entry
    clients,             \* the Client structs allocated, DefaultClient first
    httpClients,         \* the http.Client structs allocated: their Timeout
    lastCall             \* the last setter called and the client it was called on

vars == <<MaxRetries, ExponentialBackoff, ctx, pc, attempt, sends, resp, err,
          retryErr, retResp, retErr, outcomes, cancelAt, RetryTime, path, req,
          wire, slept, upstream, header, sleepPc, sleepArg, sleepTime,
          entryMaxRetries, clients, httpClients, lastCall>>

\* what a Do call reads and never writes
callInputs == <<RetryTime, path, upstream>>

\* the state of a getSleepTime call
sleepVars == <<sleepPc, sleepArg, sleepTime>>

\* the clients other than the one the Do call runs on
clientVars == <<clients, httpClients, lastCall>>

\* ctx.Err()
CtxErr(c) == IF c = "none" THEN "nil" ELSE c

GetMaxRetries == MaxRetries

\* the errors a doer invocation can return under context c: GetBody's or
\* http.Client.Do's, which ctxhttp.Do replaces by ctx.Err() when the context is done
DoerErrors(c) == {"transport"} \cup ({CtxErr(c)} \ {"nil"})

\* What one doer invocation can return under context c: a response and a nil
\* error; a nil response and an error; or, when http.Client.Do stops following
\* redirects, the last redirect response and an error, both passed on by
\* ctxhttp.Do and line 115.
DoerOutcomes(c) ==
    {[resp |-> s, err |-> "nil"] : s \in Statuses}
        \cup {[resp |-> r, err |-> e] : r \in {NilResp, StatusFound}, e \in DoerErrors(c)}

\* strings.Index(s, c): the 0-based position of the first c in s, -1 without one
Index(s, c) ==
    IF \E i \in 1 .. Len(s) : s[i] = c
    THEN (CHOOSE i \in 1 .. Len(s) : s[i] = c /\ \A j \in 1 .. i - 1 : s[j] # c) - 1
    ELSE -1

\* a length taken from the first segment whatever its length
addedIdLenFirstSegment(ids) ==
    IF ids = <<>> THEN DefaultIdLen
    ELSE IF Index(ids, ",") >= 0 THEN Index(ids, ",") \div 2 ELSE Len(ids) \div 2

\* a default length of half the size
addedIdLenShortDefault(ids) ==
    IF ids = <<>> THEN DefaultIdLen \div 2
    ELSE IF Index(ids, ",") > 1 THEN Index(ids, ",") \div 2 ELSE Len(ids) \div 2

\* Do's addedIdLen, lines 95 to 101
addedIdLen(ids) ==
    IF ids = <<>> THEN DefaultIdLen
    ELSE IF Index(ids, ",") > 1 THEN Index(ids, ",") \div 2 ELSE Len(ids) \div 2

\* common.NewRequestID(n): the identifiers of n characters; every identifier
\* character is written "x", none of them is the separator
NewRequestID(n) == {[i \in 1 .. n |-> "x"]}

\* common.AddRequestIdHeader(req, token)
AddRequestIdHeader(h, token) == IF Len(token) > 0 THEN Append(h, token) ELSE h

\* a header value that starts a new chain instead of extending the old one
CorrelationHeaderValueReplacing(ids, id) == id

\* the value Do builds for the header, lines 102 to 104
CorrelationHeaderValue(ids, id) ==
    (IF ids # <<>> THEN ids \o <<",">> ELSE ids) \o id

\* a doer that sends the stream as the previous attempt left it
DoerBodyNoReplay(r) == r

\* the doer's body handling, lines 108 to 114
DoerBody(r) ==
    IF r.ContentLength > 0 THEN [r EXCEPT !.Body = r.GetBody] ELSE r

\* what is left of a stream b once the transport has read some of it
Unread(b) == {SubSeq(b, k + 1, Len(b)) : k \in 0 .. Len(b)}

\* math.Pow(2, float64(n)) as a time.Duration, exact in the range of the model
RECURSIVE Pow2(_)
Pow2(n) == IF n <= 0 THEN 1 ELSE 2 * Pow2(n - 1)

\* rand.Intn(n)
RandIntn(n) == 0 .. n - 1

\* a jitter that starts at 0 ms
getSleepTimeJitterFromZero(n, retryTime, rnd) ==
    (Pow2(n) * retryTime) - (rnd * Millisecond)

\* getSleepTime, lines 216 to 221, rnd being what rand.Intn(4) returned
getSleepTime(n, retryTime, rnd) ==
    (Pow2(n) * retryTime) - ((rnd + 1) * Millisecond)

\* a loop that numbers its sleeps from 0
SleepAttemptZeroBased(a) == a - 1

\* the attempt number backoff gives getSleepTime, line 197
SleepAttempt(a) == a

\* a flag that is never consulted
UseBackoffAlways == TRUE

\* Do's test of the client's flag, lines 120 and 126
UseBackoff == ExponentialBackoff

\* a first-response test that forgets the conflict status
DoRetriesStatusNo409(status) ==
    status >= StatusInternalServerError

\* Do's test of the first response, lines 127 and 131
DoRetriesStatus(status) ==
    \/ status >= StatusInternalServerError
    \/ status = StatusConflict

\* a loop that only stops on a 1xx/2xx answer
BackoffReturnsOnSuccessOnly(r, e) ==
    e = "nil" /\ r < 300

\* backoff's test after a retry send, line 205
BackoffReturns(r, e) ==
    e = "nil" /\ r < StatusInternalServerError /\ r # StatusConflict

\* a loop bound that is one too large
LoopConditionOffByOne(a) == a <= GetMaxRetries + 1

\* a loop bound that is one too small
LoopConditionStrict(a) == a < GetMaxRetries

\* the for statement's condition, line 190
LoopCondition(a) == a <= GetMaxRetries

\* no Do call made yet, no getSleepTime call under way
InitCall ==
    /\ ctx = "none"
    /\ pc = "idle"
    /\ attempt = 0
    /\ sends = 0
    /\ resp = NilResp
    /\ err = "nil"
    /\ retryErr = "nil"
    /\ retResp = NilResp
    /\ retErr = "nil"
    /\ outcomes = <<>>
    /\ cancelAt = "never"
    /\ wire = <<>>
    /\ slept = <<>>
    /\ header = <<>>
    /\ sleepTime = 0
    /\ entryMaxRetries = 0
    /\ clients = <<[MaxRetries |-> DefaultMaxRetries, ExponentialBackoff |-> TRUE,
                    RetryTime |-> DefaultRetryTime, HTTPClient |-> DefaultAddr]>>
    /\ httpClients = <<[Timeout |-> DefaultTimeout]>>
    /\ lastCall = [op |-> "none", c |-> 0]

\* a client configured by SetMaxRetries, a Get request, no inbound chain
Init ==
    /\ InitCall
    /\ MaxRetries \in MaxRetriesValues
    /\ ExponentialBackoff \in BOOLEAN
    /\ RetryTime = DefaultRetryTime
    /\ path = "/other"
    /\ req = GetRequest
    /\ upstream = <<>>
    /\ sleepPc = "none"
    /\ sleepArg = 1

\* the same clients, a request to any path
InitPath ==
    /\ InitCall
    /\ MaxRetries \in MaxRetriesValues
    /\ ExponentialBackoff \in BOOLEAN
    /\ RetryTime = DefaultRetryTime
    /\ path \in Paths
    /\ req = GetRequest
    /\ upstream = <<>>
    /\ sleepPc = "none"
    /\ sleepArg = 1

\* a client that retries, any request http.NewRequest builds
InitBody ==
    /\ InitCall
    /\ MaxRetries = MaxM
    /\ ExponentialBackoff = TRUE
    /\ RetryTime = DefaultRetryTime
    /\ path = "/other"
    /\ req \in Requests
    /\ upstream = <<>>
    /\ sleepPc = "none"
    /\ sleepArg = 1

\* DefaultClient alone, no Do call under way
InitClients ==
    /\ InitCall
    /\ MaxRetries = MaxM
    /\ ExponentialBackoff = TRUE
    /\ RetryTime = DefaultRetryTime
    /\ path = "/other"
    /\ req = GetRequest
    /\ upstream = <<>>
    /\ sleepPc = "none"
    /\ sleepArg = 1

\* one client, one request, every inbound chain
InitHeader ==
    /\ InitCall
    /\ MaxRetries = 1
    /\ ExponentialBackoff = TRUE
    /\ RetryTime = DefaultRetryTime
    /\ path = "/other"
    /\ req = GetRequest
    /\ upstream \in Chains
    /\ sleepPc = "none"
    /\ sleepArg = 1

\* a getSleepTime call with any attempt number and any RetryTime
InitSleep ==
    /\ InitCall
    /\ MaxRetries = MaxM
    /\ ExponentialBackoff = TRUE
    /\ RetryTime \in RetryTimes
    /\ path = "/other"
    /\ req = GetRequest
    /\ upstream = <<>>
    /\ sleepPc = "called"
    /\ sleepArg \in 1 .. MaxM

\* return r, e from Do
Return(r, e) ==
    /\ pc' = "done"
    /\ retResp' = r
    /\ retErr' = e

\* Do up to the first doer call being in flight
DoStart ==
    /\ pc = "idle"
    /\ \E id \in NewRequestID(addedIdLen(upstream)) :
            header' = AddRequestIdHeader(header, CorrelationHeaderValue(upstream, id))
    /\ req' = DoerBody(req)
    /\ wire' = Append(wire, req'.Body)
    /\ pc' = "send1"
    /\ sends' = sends + 1
    /\ UNCHANGED <<MaxRetries, ExponentialBackoff, ctx, attempt, resp, err,
                   retryErr, retResp, retErr, outcomes, cancelAt, slept>>
    /\ UNCHANGED <<callInputs, sleepVars, clientVars, entryMaxRetries>>

\* the first doer call returns and Do decides: return, or call backoff
DoFirstReturn ==
    /\ pc = "send1"
    /\ \E out \in DoerOutcomes(ctx) :
        /\ outcomes' = Append(outcomes, out)
        /\ IF out.err # "nil"
           THEN IF UseBackoff
                THEN /\ pc' = "backoff"
                     /\ retryErr' = out.err
                     /\ UNCHANGED <<retResp, retErr>>
                ELSE /\ Return(NilResp, out.err)
                     /\ UNCHANGED retryErr
           ELSE IF UseBackoff /\ DoRetriesStatus(out.resp)
                THEN /\ pc' = "backoff"
                     /\ retryErr' = out.err
                     /\ UNCHANGED <<retResp, retErr>>
                ELSE /\ Return(out.resp, out.err)
                     /\ UNCHANGED retryErr
    /\ \E rest \in Unread(req.Body) : req' = [req EXCEPT !.Body = rest]
    /\ UNCHANGED <<MaxRetries, ExponentialBackoff, ctx, attempt, sends, resp, err,
                   cancelAt, wire, slept, header>>
    /\ UNCHANGED <<callInputs, sleepVars, clientVars, entryMaxRetries>>

\* a backoff that runs its first iteration before testing anything
BackoffEnterBodyFirst ==
    /\ pc = "backoff"
    /\ pc' = "sleep"
    /\ attempt' = 1
    /\ UNCHANGED <<MaxRetries, ExponentialBackoff, ctx, sends, resp, err,
                   retryErr, retResp, retErr, outcomes, cancelAt, req, wire,
                   slept, header>>
    /\ UNCHANGED <<callInputs, sleepVars, clientVars>>
    /\ entryMaxRetries' = GetMaxRetries

\* backoff's entry: the guard on MaxRetries, then the loop starts at attempt 1
BackoffEnter ==
    /\ pc = "backoff"
    /\ IF GetMaxRetries < 1
       THEN /\ Return(NilResp, retryErr)
            /\ UNCHANGED attempt
       ELSE /\ pc' = "loop"
            /\ attempt' = 1
            /\ UNCHANGED <<retResp, retErr>>
    /\ UNCHANGED <<MaxRetries, ExponentialBackoff, ctx, sends, resp, err,
                   retryErr, outcomes, cancelAt, req, wire, slept, header>>
    /\ UNCHANGED <<callInputs, sleepVars, clientVars>>
    /\ entryMaxRetries' = GetMaxRetries

\* the loop condition and the context check that opens each iteration
LoopHead ==
    /\ pc = "loop"
    /\ IF LoopCondition(attempt)
       THEN IF CtxErr(ctx) # "nil"
            THEN /\ err' = CtxErr(ctx)
                 /\ Return(resp, CtxErr(ctx))
                 /\ UNCHANGED slept
            ELSE /\ pc' = "sleep"
                 /\ slept' = Append(slept, SleepAttempt(attempt))
                 /\ UNCHANGED <<err, retResp, retErr>>
       ELSE /\ Return(resp, err)
            /\ UNCHANGED <<err, slept>>
    /\ UNCHANGED <<MaxRetries, ExponentialBackoff, ctx, attempt, sends, resp,
                   retryErr, outcomes, cancelAt, req, wire, header>>
    /\ UNCHANGED <<callInputs, sleepVars, clientVars, entryMaxRetries>>

\* a sleep that only a done context ends
WakeAndSendOnCancelOnly ==
    /\ pc = "sleep"
    /\ ctx # "none"
    /\ req' = DoerBody(req)
    /\ wire' = Append(wire, req'.Body)
    /\ pc' = "send"
    /\ sends' = sends + 1
    /\ UNCHANGED <<MaxRetries, ExponentialBackoff, ctx, attempt, resp, err,
                   retryErr, retResp, retErr, outcomes, cancelAt, slept, header>>
    /\ UNCHANGED <<callInputs, sleepVars, clientVars, entryMaxRetries>>

\* time.Sleep returns and the doer is called again
WakeAndSend ==
    /\ pc = "sleep"
    /\ req' = DoerBody(req)
    /\ wire' = Append(wire, req'.Body)
    /\ pc' = "send"
    /\ sends' = sends + 1
    /\ UNCHANGED <<MaxRetries, ExponentialBackoff, ctx, attempt, resp, err,
                   retryErr, retResp, retErr, outcomes, cancelAt, slept, header>>
    /\ UNCHANGED <<callInputs, sleepVars, clientVars, entryMaxRetries>>

\* the retry's doer call returns into resp, err
RetryReturn ==
    /\ pc = "send"
    /\ \E out \in DoerOutcomes(ctx) :
        /\ outcomes' = Append(outcomes, out)
        /\ resp' = out.resp
        /\ err' = out.err
    /\ \E rest \in Unread(req.Body) : req' = [req EXCEPT !.Body = rest]
    /\ pc' = "check"
    /\ UNCHANGED <<MaxRetries, ExponentialBackoff, ctx, attempt, sends,
                   retryErr, retResp, retErr, cancelAt, wire, slept, header>>
    /\ UNCHANGED <<callInputs, sleepVars, clientVars, entryMaxRetries>>

\* a check after the send that looks at the send's result before the context
PostSendResultFirst ==
    /\ pc = "check"
    /\ IF BackoffReturns(resp, err)
       THEN /\ Return(resp, err)
            /\ UNCHANGED <<err, attempt>>
       ELSE IF CtxErr(ctx) # "nil"
            THEN /\ err' = CtxErr(ctx)
                 /\ Return(resp, CtxErr(ctx))
                 /\ UNCHANGED attempt
            ELSE /\ pc' = "loop"
                 /\ attempt' = attempt + 1
                 /\ UNCHANGED <<err, retResp, retErr>>
    /\ UNCHANGED <<MaxRetries, ExponentialBackoff, ctx, sends, resp,
                   retryErr, outcomes, cancelAt, req, wire, slept, header>>
    /\ UNCHANGED <<callInputs, sleepVars, clientVars, entryMaxRetries>>

\* after the send: the context has priority, then the status test, then attempt++
PostSend ==
    /\ pc = "check"
    /\ IF CtxErr(ctx) # "nil"
       THEN /\ err' = CtxErr(ctx)
            /\ Return(resp, CtxErr(ctx))
            /\ UNCHANGED attempt
       ELSE IF BackoffReturns(resp, err)
            THEN /\ Return(resp, err)
                 /\ UNCHANGED <<err, attempt>>
            ELSE /\ pc' = "loop"
                 /\ attempt' = attempt + 1
                 /\ UNCHANGED <<err, retResp, retErr>>
    /\ UNCHANGED <<MaxRetries, ExponentialBackoff, ctx, sends, resp,
                   retryErr, outcomes, cancelAt, req, wire, slept, header>>
    /\ UNCHANGED <<callInputs, sleepVars, clientVars, entryMaxRetries>>

\* the caller cancels the context, or its deadline expires, while Do runs
Cancel ==
    /\ ctx = "none"
    /\ pc # "done"
    /\ \E e \in CtxErrs : ctx' = e
    /\ cancelAt' = pc
    /\ UNCHANGED <<MaxRetries, ExponentialBackoff, pc, attempt, sends, resp, err,
                   retryErr, retResp, retErr, outcomes, req, wire, slept, header>>
    /\ UNCHANGED <<callInputs, sleepVars, clientVars, entryMaxRetries>>

\* one getSleepTime call: the jitter is drawn and the sleep time returned
GetSleepTimeCall ==
    /\ sleepPc = "called"
    /\ \E rnd \in RandIntn(4) : sleepTime' = getSleepTime(sleepArg, RetryTime, rnd)
    /\ sleepPc' = "returned"
    /\ UNCHANGED <<MaxRetries, ExponentialBackoff, ctx, pc, attempt, sends, resp, err,
                   retryErr, retResp, retErr, outcomes, cancelAt, req, wire,
                   slept, header, sleepArg>>
    /\ UNCHANGED <<callInputs, clientVars, entryMaxRetries>>

\* SetMaxRetries called on the Do call's client by another goroutine while Do
\* runs: no lock orders it with the reads of lines 187 and 190, each of which
\* sees the value written before it or the value written after it
SetMaxRetries ==
    /\ pc \notin {"idle", "done"}
    /\ \E maxRetries \in MaxRetriesValues : MaxRetries' = maxRetries
    /\ UNCHANGED <<ExponentialBackoff, ctx, pc, attempt, sends, resp, err,
                   retryErr, retResp, retErr, outcomes, cancelAt, req, wire,
                   slept, header>>
    /\ UNCHANGED <<callInputs, sleepVars, clientVars, entryMaxRetries>>

\* the Do call's own variables, which no call on another client touches
doVars == <<MaxRetries, ExponentialBackoff, ctx, pc, attempt, sends, resp, err,
            retryErr, retResp, retErr, outcomes, cancelAt, req, wire, slept,
            header, entryMaxRetries>>

\* c.HTTPClient.Timeout of the client at address c
TimeoutOf(c) == httpClients[clients[c].HTTPClient].Timeout

\* the value NewClient returns the address of: newClient := *DefaultClient
CopyOfDefaultClient == clients[DefaultAddr]

\* c.HTTPClient.Timeout = timeout, written through the pointer c.HTTPClient
WithTimeout(hs, cs, c, timeout) ==
    [hs EXCEPT ![cs[c].HTTPClient].Timeout = timeout]

\* NewClient()
NewClient ==
    /\ Len(clients) < 1 + MaxClients
    /\ clients' = Append(clients, CopyOfDefaultClient)
    /\ lastCall' = [op |-> "NewClient", c |-> Len(clients) + 1]
    /\ UNCHANGED <<httpClients, doVars, callInputs, sleepVars>>

\* c.SetTimeout(timeout) on any client allocated
SetTimeout ==
    /\ \E c \in 1 .. Len(clients), timeout \in Timeouts :
        /\ httpClients' = WithTimeout(httpClients, clients, c, timeout)
        /\ lastCall' = [op |-> "SetTimeout", c |-> c]
    /\ UNCHANGED <<clients, doVars, callInputs, sleepVars>>

\* c.SetMaxRetries(maxRetries) on any client allocated
ClientSetMaxRetries ==
    /\ \E c \in 1 .. Len(clients), maxRetries \in MaxRetriesValues :
        /\ clients' = [clients EXCEPT ![c].MaxRetries = maxRetries]
        /\ lastCall' = [op |-> "SetMaxRetries", c |-> c]
    /\ UNCHANGED <<httpClients, doVars, callInputs, sleepVars>>

\* ClientWithTimeout(nil, timeout): NewClient, then SetTimeout on its result
ClientWithTimeout ==
    /\ Len(clients) < 1 + MaxClients
    /\ clients' = Append(clients, CopyOfDefaultClient)
    /\ \E timeout \in Timeouts :
            httpClients' = WithTimeout(httpClients, clients', Len(clients'), timeout)
    /\ lastCall' = [op |-> "SetTimeout", c |-> Len(clients')]
    /\ UNCHANGED <<doVars, callInputs, sleepVars>>

Next ==
    \/ DoStart
    \/ DoFirstReturn
    \/ BackoffEnter
    \/ LoopHead
    \/ WakeAndSend
    \/ RetryReturn
    \/ PostSend
    \/ Cancel

Spec == Init /\ [][Next]_vars

\* the Do call for a request to any path
SpecPath == InitPath /\ [][Next]_vars

\* the Do call for any request body
SpecBody == InitBody /\ [][Next]_vars

\* the Do call under every inbound correlation chain
SpecHeader == InitHeader /\ [][Next]_vars

\* getSleepTime alone, under every attempt number and RetryTime
SpecSleep == InitSleep /\ [][GetSleepTimeCall]_vars

\* the Do call with SetMaxRetries called on its client while it runs
NextWithSetter ==
    \/ Next
    \/ SetMaxRetries

SpecSetter == Init /\ [][NextWithSetter]_vars

\* clients made by NewClient and ClientWithTimeout, and their setters
NextClients ==
    \/ NewClient
    \/ ClientWithTimeout
    \/ SetTimeout
    \/ ClientSetMaxRetries

SpecClients == InitClients /\ [][NextClients]_vars

\* the steps of the Do call itself: each send and each sleep completes
Step ==
    \/ DoStart
    \/ DoFirstReturn
    \/ BackoffEnter
    \/ LoopHead
    \/ WakeAndSend
    \/ RetryReturn
    \/ PostSend

\* the Do call with its own steps never postponed for ever
SpecLive == Init /\ [][Next]_vars /\ WF_vars(Step)

TypeOK ==
    /\ MaxRetries \in MaxRetriesValues
    /\ ExponentialBackoff \in BOOLEAN
    /\ ctx \in {"none"} \cup CtxErrs
    /\ pc \in {"idle", "send1", "backoff", "loop", "sleep", "send", "check", "done"}
    /\ attempt \in 0 .. MaxM + 1
    /\ sends \in 0 .. MaxM + 1
    /\ resp \in Statuses \cup {NilResp, StatusFound}
    /\ err \in {"nil", "transport"} \cup CtxErrs
    /\ retryErr \in {"nil", "transport"} \cup CtxErrs
    /\ retResp \in Statuses \cup {NilResp, StatusFound}
    /\ retErr \in {"nil", "transport"} \cup CtxErrs
    /\ RetryTime \in RetryTimes
    /\ path \in Paths
    /\ req.Body \in Unread(BodyBytes)
    /\ Len(wire) = sends
    /\ Len(slept) <= MaxM
    /\ upstream \in Chains
    /\ Len(header) <= 1
    /\ sleepPc \in {"none", "called", "returned"}
    /\ entryMaxRetries \in MaxRetriesValues
    /\ Len(clients) \in 1 .. 1 + MaxClients
    /\ \A c \in 1 .. Len(clients) :
            /\ clients[c].MaxRetries \in MaxRetriesValues \cup {DefaultMaxRetries}
            /\ clients[c].HTTPClient \in 1 .. Len(httpClients)
            /\ TimeoutOf(c) \in Timeouts \cup {DefaultTimeout}
    /\ lastCall.op \in {"none", "NewClient", "SetTimeout", "SetMaxRetries"}

\* ------------------------------------------------------------------ claims

\* every status code of the classes 1xx to 5xx
StatusCodes == 100 .. 599

\* the retry predicate as the specification words it (section 4.2)
IsRetryable(o) == o.err # "nil" \/ o.resp >= 500 \/ o.resp = 409

Min(a, b) == IF a <= b THEN a ELSE b

\* how many of the attempts made so far ended in a retryable outcome
RetryableCount == Cardinality({k \in 1 .. Len(outcomes) : IsRetryable(outcomes[k])})

AllRetryable == \A k \in 1 .. Len(outcomes) : IsRetryable(outcomes[k])

LastOutcome == outcomes[Len(outcomes)]

\* C1: with backoff enabled and MaxRetries = M >= 0 the number of sends never
\* exceeds 1 + M, and a finished call has made 1 + min(M, retries its retryable
\* outcomes asked for) sends, fewer only when a cancellation ended it first.
C1_SendCount ==
    (ExponentialBackoff /\ MaxRetries >= 0) =>
        /\ sends <= 1 + MaxRetries
        /\ pc = "done" =>
            /\ sends = Len(outcomes)
            /\ sends <= 1 + Min(MaxRetries, RetryableCount)
            /\ ctx = "none" => sends = 1 + Min(MaxRetries, RetryableCount)

\* a call with M = 3 that a non-retryable second retry ended after 3 sends
C1_Witness ==
    /\ pc = "done" /\ ExponentialBackoff /\ MaxRetries = 3 /\ ctx = "none"
    /\ sends = 3 /\ RetryableCount = 2

\* C2: when every attempt is retryable and the context is never cancelled, Do
\* with MaxRetries = M >= 1 makes exactly 1 + M sends and returns what the last
\* attempt produced: its response and a nil error, or its error and no response.
C2_ExhaustedReturnsLast ==
    (pc = "done" /\ ExponentialBackoff /\ MaxRetries >= 1 /\ ctx = "none" /\ AllRetryable) =>
        /\ sends = 1 + MaxRetries
        /\ Len(outcomes) = 1 + MaxRetries
        /\ retResp = LastOutcome.resp
        /\ retErr = LastOutcome.err
        /\ retErr = "nil" => retResp # NilResp
        /\ retErr # "nil" => (retResp = NilResp /\ retErr = "transport")

\* C2 as the code has it: when every attempt is retryable and the context is
\* never cancelled, Do with MaxRetries = M >= 1 makes exactly 1 + M sends and
\* returns what the last attempt produced as it is: its response and a nil
\* error, or its error and whatever came with it, which is no response or the
\* redirect response of a redirect that was given up on.
C2_ExhaustedReturnsLastPair ==
    (pc = "done" /\ ExponentialBackoff /\ MaxRetries >= 1 /\ ctx = "none" /\ AllRetryable) =>
        /\ sends = 1 + MaxRetries
        /\ Len(outcomes) = 1 + MaxRetries
        /\ retResp = LastOutcome.resp
        /\ retErr = LastOutcome.err
        /\ retErr = "nil" => retResp # NilResp
        /\ retErr # "nil" => (retResp \in {NilResp, StatusFound} /\ retErr = "transport")

\* always-500 with M = 3: four sends, the fourth response, status 500, no error
C2_Witness ==
    /\ pc = "done" /\ ExponentialBackoff /\ MaxRetries = 3 /\ ctx = "none"
    /\ sends = 4
    /\ \A k \in 1 .. Len(outcomes) : outcomes[k] = [resp |-> 500, err |-> "nil"]
    /\ retResp = 500 /\ retErr = "nil"

\* redirects given up on at every attempt, M = 1: two sends, then the second
\* attempt's redirect response and error, both returned
C2_WitnessRedirect ==
    /\ pc = "done" /\ ExponentialBackoff /\ MaxRetries = 1 /\ ctx = "none"
    /\ sends = 2
    /\ \A k \in 1 .. Len(outcomes) : outcomes[k] = [resp |-> StatusFound, err |-> "transport"]
    /\ retResp = StatusFound /\ retErr = "transport"

\* C3: no send follows an attempt whose outcome is not retryable, and when a
\* retry attempt of an uncancelled call is the first with such an outcome Do
\* returns that attempt's response with a nil error.
C3_StopsAtFirstFinal ==
    /\ \A k \in 1 .. Len(outcomes) :
            ~IsRetryable(outcomes[k]) => (k = Len(outcomes) /\ sends = k)
    /\ (pc = "done" /\ ExponentialBackoff /\ MaxRetries >= 1 /\ ctx = "none"
            /\ Len(outcomes) >= 2 /\ ~IsRetryable(LastOutcome)) =>
        /\ retResp = LastOutcome.resp
        /\ retResp # NilResp
        /\ retErr = "nil"
        /\ sends = Len(outcomes)

\* a first attempt that fails in the transport, then a 200: two sends, the 200
C3_Witness ==
    /\ pc = "done" /\ ctx = "none"
    /\ outcomes = <<[resp |-> NilResp, err |-> "transport"], [resp |-> 200, err |-> "nil"]>>
    /\ sends = 2 /\ retResp = 200 /\ retErr = "nil"

\* C4: Do's status tests and backoff's test agree with the retry predicate on
\* every status code from 100 to 599; after the first attempt Do calls backoff
\* exactly when the outcome is a transport error, a status >= 500 or a 409, and
\* after every retry attempt (context not cancelled) the loop goes on exactly in
\* those same cases.
C4_Classification ==
    /\ [](pc = "idle" =>
            \A s \in StatusCodes :
                /\ DoRetriesStatus(s) <=> IsRetryable([resp |-> s, err |-> "nil"])
                /\ BackoffReturns(s, "nil") <=> ~IsRetryable([resp |-> s, err |-> "nil"]))
    /\ [][ /\ (pc = "send1" /\ pc' # "send1" /\ ExponentialBackoff) =>
                ((pc' = "backoff") <=> IsRetryable(outcomes'[1]))
          /\ (pc = "check" /\ pc' # "check" /\ ctx = "none") =>
                /\ (pc' = "loop") <=> IsRetryable(LastOutcome)
                /\ (pc' = "done") <=> ~IsRetryable(LastOutcome) ]_vars

\* a 409 first answer was retried and a 429 retry answer was final
C4_Witness ==
    /\ pc = "done" /\ ctx = "none"
    /\ outcomes = <<[resp |-> 409, err |-> "nil"], [resp |-> 429, err |-> "nil"]>>
    /\ retResp = 429 /\ retErr = "nil"

\* C5: when MaxRetries <= 0, Do returns the first attempt's outcome, whatever
\* it is: the response with a nil error, or the error with a nil response.
C5_FirstOutcomeReturned ==
    (pc = "done" /\ MaxRetries <= 0) =>
        /\ retResp = outcomes[1].resp
        /\ retErr = outcomes[1].err

\* C6: with MaxRetries = 0 exactly one send is made, whatever its outcome.
C6_OneSendWithoutRetries ==
    MaxRetries = 0 =>
        /\ sends <= 1
        /\ pc = "done" => (sends = 1 /\ Len(outcomes) = 1)

\* a call with M = 0 whose only attempt was answered 500
C6_Witness ==
    /\ pc = "done" /\ ExponentialBackoff /\ MaxRetries = 0
    /\ outcomes = <<[resp |-> 500, err |-> "nil"]>>
    /\ sends = 1

\* C7: once the context is cancelled during a backoff sleep, no further send is
\* started (the sends stay those made before the sleep) and Do returns the
\* context's error.
C7_CancelledSleepSendsNothing ==
    cancelAt = "sleep" =>
        /\ pc \in {"sleep", "done"}
        /\ sends = attempt
        /\ pc = "done" => retErr = ctx

\* C8: whenever Do returns a cancellation error the returned response is nil.
C8_CancelledResponseIsNil ==
    (pc = "done" /\ retErr \in CtxErrs) => retResp = NilResp

\* C9: when the context is cancelled by the time a retry send has returned and
\* is checked, Do returns the context's own error, whatever the send produced.
C9_CancelWinsAfterSend ==
    (pc = "done" /\ cancelAt \in {"sleep", "send", "check"}) =>
        /\ retErr \in CtxErrs
        /\ retErr = ctx

\* cancelled right after a retry was answered 200: the caller gets "canceled"
C9_Witness ==
    /\ pc = "done" /\ cancelAt = "check"
    /\ LastOutcome = [resp |-> 200, err |-> "nil"]
    /\ retErr = "canceled"

\* C10: when the context is cancelled while the first attempt is in flight
\* (MaxRetries >= 1), Do returns the context's error and a nil response after
\* exactly one send.
C10_CancelledFirstAttempt ==
    (pc = "done" /\ ExponentialBackoff /\ MaxRetries >= 1 /\ cancelAt = "send1") =>
        /\ retErr \in CtxErrs
        /\ retErr = ctx
        /\ retResp = NilResp
        /\ sends = 1

\* the exemption set the specification lets a client be configured with
\* (sections 3 and 6); Client has no field for it
NoRetryPaths == {"/exempt"}

\* C11: a request whose path is in the no-retry exemption set is sent exactly
\* once, whatever the outcome and whatever MaxRetries is.
C11_ExemptPathOneSend ==
    path \in NoRetryPaths =>
        /\ sends <= 1
        /\ pc = "done" => sends = 1

\* C12: the sleep time getSleepTime returns is never negative, for every attempt
\* number n >= 1 and every base delay b >= 0.
C12_SleepTimeNeverNegative ==
    (sleepPc = "returned" /\ sleepArg >= 1 /\ RetryTime >= 0) => sleepTime >= 0

\* the jitters of 1, 2, 3 and 4 milliseconds, in nanoseconds
JitterWindow == {j * 1000000 : j \in 1 .. 4}

\* C13: for every attempt number n >= 1 and base delay b > 0 the sleep time is
\* 2^n * b minus a jitter of 1, 2, 3 or 4 ms, so it lies in
\* [2^n * b - 4ms, 2^n * b - 1ms].
C13_SleepTimeWindow ==
    (sleepPc = "returned" /\ sleepArg >= 1 /\ RetryTime > 0) =>
        /\ \E j \in JitterWindow : sleepTime = (2 ^ sleepArg) * RetryTime - j
        /\ sleepTime >= (2 ^ sleepArg) * RetryTime - 4000000
        /\ sleepTime <= (2 ^ sleepArg) * RetryTime - 1000000

\* retry 3 with the default 20 ms: 160 ms less the largest jitter
C13_Witness ==
    /\ sleepPc = "returned" /\ sleepArg = 3 /\ RetryTime = 20000000
    /\ sleepTime = 156000000

\* C14: every send of a request with a non-empty body, the first and each
\* retry alike, transmits the original body: the stream handed to the
\* transport on attempt k is the one the first attempt was given, whatever the
\* previous attempt read of it.
C14_BodyReplayed ==
    /\ Len(wire) = sends
    /\ (Len(wire) >= 1 /\ wire[1] # <<>>) =>
            \A k \in 1 .. Len(wire) : wire[k] = wire[1]

\* how many separators a chain holds: one less than its number of segments
CommaCount(str) == Cardinality({i \in 1 .. Len(str) : str[i] = ","})

\* the characters of str before its first separator
FirstSegmentLen(str) ==
    IF \E i \in 1 .. Len(str) : str[i] = ","
    THEN Cardinality({i \in 1 .. Len(str) : \A j \in 1 .. i : str[j] # ","})
    ELSE Len(str)

\* the identifier Do appended to a non-empty chain: what follows chain and ","
AppendedId == SubSeq(header[1], Len(upstream) + 2, Len(header[1]))

\* C15: with a non-empty chain on the context the header Do sets is the chain
\* unchanged, a comma, and one new segment: one value, one segment more.
C15_ChainExtended ==
    (pc # "idle" /\ upstream # <<>>) =>
        /\ Len(header) = 1
        /\ Len(header[1]) >= Len(upstream) + 1
        /\ SubSeq(header[1], 1, Len(upstream)) = upstream
        /\ header[1][Len(upstream) + 1] = ","
        /\ CommaCount(AppendedId) = 0
        /\ CommaCount(header[1]) = CommaCount(upstream) + 1

\* the chain "aa,a" becomes "aa,a,x"
C15_Witness ==
    /\ pc = "send1"
    /\ upstream = <<"a", "a", ",", "a">>
    /\ header = << <<"a", "a", ",", "a", ",", "x">> >>

\* C16 as claimed: for every non-empty chain the new identifier has
\* floor(L / 2) characters, L being the length of the chain's first segment.
C16_HalfOfFirstSegment ==
    (pc # "idle" /\ upstream # <<>>) =>
        Len(AppendedId) = FirstSegmentLen(upstream) \div 2

\* C16 as amended: the new identifier has floor(L / 2) characters, L being the
\* length of the first segment when a comma follows at least two characters
\* and the length of the whole chain value otherwise; a single-segment chain of
\* length L gives a header longer than 3L/2.
C16_HalfOfFirstSegmentOrChain ==
    (pc # "idle" /\ upstream # <<>>) =>
        /\ (CommaCount(upstream) > 0 /\ FirstSegmentLen(upstream) > 1) =>
                Len(AppendedId) = FirstSegmentLen(upstream) \div 2
        /\ (CommaCount(upstream) = 0 \/ FirstSegmentLen(upstream) <= 1) =>
                Len(AppendedId) = Len(upstream) \div 2
        /\ CommaCount(upstream) = 0 =>
                /\ Len(header[1]) = Len(upstream) + 1 + (Len(upstream) \div 2)
                /\ 2 * Len(header[1]) > 3 * Len(upstream)

\* the chain "a,aaa": a first segment of one character, an identifier of two
C16_Witness ==
    /\ pc = "send1"
    /\ upstream = <<"a", ",", "a", "a", "a">>
    /\ header = << <<"a", ",", "a", "a", "a", ",", "x", "x">> >>

\* C17: without a chain on the context the header Do sets has one value, a
\* single segment of exactly 20 characters with no comma.
C17_FreshIdentifier ==
    (pc # "idle" /\ upstream = <<>>) =>
        /\ Len(header) = 1
        /\ Len(header[1]) = 20
        /\ CommaCount(header[1]) = 0

\* a finished call without a chain: one value of 20 characters
C17_Witness ==
    /\ pc = "done" /\ upstream = <<>>
    /\ Len(header) = 1 /\ Len(header[1]) = 20

\* the moves of a Do call: idle, first send, evaluation, then sleep, send and
\* evaluation in turn, and the return
DispatchOrder ==
    { <<"idle", "send1">>, <<"send1", "backoff">>, <<"send1", "done">>,
      <<"backoff", "loop">>, <<"backoff", "done">>,
      <<"loop", "sleep">>, <<"loop", "done">>,
      <<"sleep", "send">>, <<"send", "check">>,
      <<"check", "loop">>, <<"check", "done">> }

DoneSuccess ==
    /\ ~IsRetryable(LastOutcome)
    /\ retResp = LastOutcome.resp /\ retErr = "nil"

DoneCancelled == ctx # "none" /\ retErr = ctx

DoneExhausted ==
    /\ IsRetryable(LastOutcome)
    /\ sends = 1 + (IF MaxRetries > 0 THEN MaxRetries ELSE 0)

\* C18: the first attempt is sent with no sleep before it, retry send k comes
\* after exactly one sleep computed with attempt number k, no sleep follows the
\* final attempt, the call moves only along the dispatch order, and with backoff
\* enabled it ends in success, exhaustion or cancellation.
C18_DispatchOrder ==
    /\ [](/\ \A k \in 1 .. Len(slept) : slept[k] = k
          /\ pc = "sleep" => Len(slept) = sends
          /\ pc \in {"send1", "backoff", "loop", "send", "check", "done"} =>
                Len(slept) = sends - 1
          /\ pc = "idle" => (sends = 0 /\ slept = <<>>)
          /\ (pc = "done" /\ ExponentialBackoff) =>
                (DoneSuccess \/ DoneExhausted \/ DoneCancelled))
    /\ [][ /\ pc' # pc => <<pc, pc'>> \in DispatchOrder
           /\ sends' # sends =>
                (sends' = sends + 1 /\ pc \in {"idle", "sleep"} /\ Len(slept) = sends)
           /\ slept' # slept => (pc = "loop" /\ pc' = "sleep") ]_vars

\* a call that ended after three sends and the sleeps of attempts 1 and 2
C18_Witness ==
    /\ pc = "done" /\ sends = 3 /\ slept = <<1, 2>>

\* C19: every Do call returns, whatever the outcomes and whenever the context
\* is cancelled, given that each send and each sleep completes.
C19_DoReturns == <>(pc = "done")

\* a call that returned after all of its 1 + 3 attempts
C19_Witness ==
    /\ pc = "done" /\ MaxRetries = 3 /\ sends = 4 /\ Len(outcomes) = 4

\* C20: with ExponentialBackoff false Do sends once, whatever MaxRetries is,
\* and returns that attempt's outcome unchanged.
C20_NoBackoffOneSend ==
    ~ExponentialBackoff =>
        /\ sends <= 1
        /\ pc \in {"idle", "send1", "done"}
        /\ pc = "done" =>
            /\ sends = 1 /\ Len(outcomes) = 1
            /\ retResp = outcomes[1].resp
            /\ retErr = outcomes[1].err

\* C20 as the code has it: with ExponentialBackoff false Do sends once, whatever
\* MaxRetries is; it returns the attempt's response with a nil error when the
\* attempt had no error, and the attempt's error with a nil response when it
\* had one, the response that came with the error being dropped.
C20_NoBackoffOneSendErrorAlone ==
    ~ExponentialBackoff =>
        /\ sends <= 1
        /\ pc \in {"idle", "send1", "done"}
        /\ pc = "done" =>
            /\ sends = 1 /\ Len(outcomes) = 1
            /\ retErr = outcomes[1].err
            /\ outcomes[1].err = "nil" => retResp = outcomes[1].resp
            /\ outcomes[1].err # "nil" => retResp = NilResp

\* backoff off, MaxRetries 3, a 500 answer: returned as it is after one send
C20_Witness ==
    /\ pc = "done" /\ ~ExponentialBackoff /\ MaxRetries = 3
    /\ outcomes = <<[resp |-> 500, err |-> "nil"]>>
    /\ sends = 1 /\ retResp = 500 /\ retErr = "nil"

\* backoff off, a redirect given up on: the error alone is returned after one send
C20_WitnessErrorAlone ==
    /\ pc = "done" /\ ~ExponentialBackoff /\ MaxRetries = 3
    /\ outcomes = <<[resp |-> StatusFound, err |-> "transport"]>>
    /\ sends = 1 /\ retResp = NilResp /\ retErr = "transport"

\* C21: clients returned by NewClient are configured independently: SetTimeout
\* called on one of them leaves the request timeout of DefaultClient and of
\* every other client as it was, as SetMaxRetries called on one of them leaves
\* the MaxRetries of every other client as it was.
C21_SettersAreLocal ==
    [][ \A d \in 1 .. Len(clients) :
            (lastCall'.c >= 2 /\ d # lastCall'.c) =>
                /\ lastCall'.op = "SetTimeout" =>
                        httpClients'[clients'[d].HTTPClient].Timeout = TimeoutOf(d)
                /\ lastCall'.op = "SetMaxRetries" =>
                        clients'[d].MaxRetries = clients[d].MaxRetries ]_vars

\* C22: a SetMaxRetries call made while Do is inside its backoff loop does not
\* change the number of sends: an uncancelled call that entered the loop ends
\* after 1 + min(M0, retries its retryable outcomes asked for) sends, M0 being
\* MaxRetries as it was when the loop was entered.
C22_BoundFixedAtEntry ==
    (pc = "done" /\ ExponentialBackoff /\ attempt >= 1 /\ ctx = "none") =>
        sends = 1 + Min(entryMaxRetries, RetryableCount)

====
